---- MODULE Spec2Model ----
(***************************************************************************)
(* Model of libafl/src/generators/mod.rs: the Generator trait and its two  *)
(* elementary implementations, RandBytesGenerator and                      *)
(* RandPrintablesGenerator.                                                 *)
(*                                                                         *)
(* Two runs (Runs) own one generator each, constructed by new with the     *)
(* same argument, and read the same deterministic randomness sequence      *)
(* (stream), each from its own position (rand[r]).  Every call is logged   *)
(* in calls[r] with the draws it made, in the order it made them.          *)
(***************************************************************************)
EXTENDS Integers, Sequences, FiniteSets, TLC

\* ---- bounds of the model ----
MaxSize == 3
MaxRaw == 1
MaxDraws == 4
MaxCalls == 2

\* ---- program constants ----
DUMMY_BYTES_MAX == 64

printables ==
  << 48, 49, 50, 51, 52, 53, 54, 55, 56, 57,
     65, 66, 67, 68, 69, 70, 71, 72, 73, 74, 75, 76, 77,
     78, 79, 80, 81, 82, 83, 84, 85, 86, 87, 88, 89, 90,
     97, 98, 99, 100, 101, 102, 103, 104, 105, 106, 107, 108, 109,
     110, 111, 112, 113, 114, 115, 116, 117, 118, 119, 120, 121, 122,
     32, 9, 10,
     33, 34, 35, 36, 37, 38, 39, 40, 41, 42, 43, 44, 45, 46, 47,
     58, 59, 60, 61, 62, 63, 64,
     91, 92, 93, 94, 95, 96,
     123, 124, 125, 126 >>

\* ---- the inputs the model enumerates ----
Runs == {1, 2}
Kinds == {"RandBytesGenerator", "RandPrintablesGenerator"}
\* the arguments given to new: the small ones, and those of the spec's scenarios
MaxSizes == (0..MaxSize) \cup {5, 10, 1000}
\* the raw 64-bit values the randomness source steps through: the small ones,
\* and 3 * 256 * 97 - 1, which selects the largest byte (255), the alphabet's
\* last character (index 96) and the largest length of max_size 3 (2)
RawVals == (0..MaxRaw) \cup {74495}

VARIABLES
  kind,          \* which of the two generators the runs use
  newArg,        \* the argument given to new
  gen,           \* gen[r]: the generator of run r (its configuration)
  stream,        \* the values the randomness source steps through, as far as read
  onEmptyRange,  \* what the randomness source does on a bound of 0
  rand,          \* rand[r]: how many values run r's source has stepped through
  calls,         \* calls[r]: the calls run r made, with their draws and results
  status         \* status[r]: "running", or "panicked"

vars == <<kind, newArg, gen, stream, onEmptyRange, rand, calls, status>>

\* ---- helpers ----
min(a, b) == IF a <= b THEN a ELSE b

Range(s) == {s[i] : i \in 1..Len(s)}

\* `as u8`
AsU8(v) == v % 256

\* RandBytesGenerator::new / RandPrintablesGenerator::new
new(max_size) == [max_size |-> max_size]

\* Rand::below(upper_bound_excl) on the raw value the source steps to: a value
\* of [0, upper_bound_excl).  The range is empty for a bound of 0, where the
\* draw is undefined: the source either fails (panics) or hands back 0, and a
\* given source always does the same (onEmptyRange).
below(raw, upper_bound_excl) ==
  IF upper_bound_excl = 0
    THEN [panic |-> (onEmptyRange = "panic"), value |-> 0]
    ELSE [panic |-> FALSE, value |-> raw % upper_bound_excl]

\* Rand::choose(from) on a non-empty slice: the element at index below(len)
choose(raw, from) == from[(raw % Len(from)) + 1]

\* ---- generate ----
\* mutants of size_of: the zero draw kept, and one added to every draw
size_of_nocoerce(drawn) == drawn

size_of_plus(drawn) == drawn + 1

\* `if size == 0 { size = 1; }`
size_of(drawn) == IF drawn = 0 THEN 1 ELSE drawn

\* mutant of sizeBound: max_size as an inclusive bound
sizeBound_incl(g) == g.max_size + 1

\* the bound of the length draw: `self.max_size as u64`
sizeBound(g) == g.max_size

\* the call `state.rand_mut().below(self.max_size as u64)`, the at-th draw of
\* the source, with outcome o
sizeDraw(g, at, o) ==
  [op |-> "below", bound |-> sizeBound(g), at |-> at,
   returned |-> ~o.panic, result |-> o.value]

\* mutant of symbolDraw: the printables generator drawing raw bytes
symbolDraw_rawbyte(k, at, raw) ==
  [op |-> "below", bound |-> 256, at |-> at, returned |-> TRUE,
   result |-> below(raw, 256).value]

\* the closure of `.map(|_| ...)`: one draw of the source per output position,
\* the at-th draw of the source, which steps to raw
symbolDraw(k, at, raw) ==
  IF k = "RandBytesGenerator"
    THEN [op |-> "below", bound |-> 256, at |-> at, returned |-> TRUE,
          result |-> below(raw, 256).value]
    ELSE [op |-> "choose", bound |-> Len(printables), at |-> at, returned |-> TRUE,
          result |-> choose(raw, printables)]

\* what the closure pushes: `below(256) as u8`, or `*choose(printables)`
symbol(k, d) == IF k = "RandBytesGenerator" THEN AsU8(d.result) ELSE d.result

\* mutant of drawIndex: the positions filled from the last to the first
drawIndex_rev(i, size) == size + 1 - i

\* (0..size).map(..).collect(): position i of the output (1-based here) is
\* filled by the i-th draw after the length draw
drawIndex(i, size) == i

\* the draws of one generate call on the source s read from position p, the
\* length draw having had outcome o
generateDraws(k, g, s, p, o) ==
  IF o.panic
    THEN <<sizeDraw(g, p + 1, o)>>
    ELSE LET size == size_of(o.value)
         IN  <<sizeDraw(g, p + 1, o)>> \o
             [i \in 1..size |->
                LET at == p + 1 + drawIndex(i, size) IN symbolDraw(k, at, s[at])]

\* random_bytes
random_bytes(k, size, draws) ==
  [i \in 1..size |-> symbol(k, draws[1 + i])]

\* mutant of generateResult: a zero length draw rejected instead of coerced
generateResult_err(k, g, draws, o) ==
  IF o.panic
    THEN [outcome |-> "panic", bytes |-> <<>>]
    ELSE IF o.value = 0
      THEN [outcome |-> "Err", bytes |-> <<>>]
      ELSE [outcome |-> "Ok", bytes |-> [i \in 1..o.value |-> symbol(k, draws[1 + i])]]

\* the outcome of generate: Ok(BytesInput::new(random_bytes))
generateResult(k, g, draws, o) ==
  IF o.panic
    THEN [outcome |-> "panic", bytes |-> <<>>]
    ELSE [outcome |-> "Ok", bytes |-> random_bytes(k, size_of(o.value), draws)]

\* the first position of the source not read by a generate call from p
generateRandAfter(p, o) == IF o.panic THEN p + 1 ELSE p + 1 + size_of(o.value)

\* mutant of generateSelf: the coerced size written to the field
generateSelf_store(g) == [g EXCEPT !.max_size = 1]

\* the configuration after generate(&mut self, ..)
generateSelf(g) == g

\* ---- generate_dummy ----
\* mutant of dummyBytes: the ceiling DUMMY_BYTES_MAX left out
dummyBytes_nocap(g) == [i \in 1..g.max_size |-> 0]

\* `vec![0; min(self.max_size, DUMMY_BYTES_MAX)]`
dummyBytes(g) == [i \in 1..min(g.max_size, DUMMY_BYTES_MAX) |-> 0]

\* mutant of dummyRandAfter: the dummy path stepping the source once
dummyRandAfter_draw(p) == p + 1

\* generate_dummy ignores _state: the source is where it was
dummyRandAfter(p) == p

\* ---- the state machine ----
Init ==
  /\ kind \in Kinds
  /\ newArg \in MaxSizes
  /\ gen = [r \in Runs |-> new(newArg)]
  /\ stream = <<>>
  \* what the source does on the empty range shows only under max_size = 0
  /\ onEmptyRange \in (IF newArg = 0 THEN {"panic", "zero"} ELSE {"zero"})
  /\ rand = [r \in Runs |-> 0]
  /\ calls = [r \in Runs |-> <<>>]
  /\ status = [r \in Runs |-> "running"]

\* the source's sequence s, known up to the values a read of its first n needs:
\* the values not yet stepped to are any of RawVals
Extend(s, n) ==
  {s \o ext : ext \in [1..(IF n > Len(s) THEN n - Len(s) ELSE 0) -> RawVals]}

CanCall(r) == status[r] = "running" /\ Len(calls[r]) < MaxCalls

Generate(r) ==
  /\ CanCall(r)
  /\ LET p == rand[r]
         g == gen[r]
     IN \E s1 \in Extend(stream, p + 1) :
          LET o     == below(s1[p + 1], sizeBound(g))
              after == generateRandAfter(p, o)
          IN /\ after <= MaxDraws
             /\ \E s \in Extend(s1, after) :
                  LET draws == generateDraws(kind, g, s, p, o)
                      res   == generateResult(kind, g, draws, o)
                  IN /\ stream' = s
                     /\ rand' = [rand EXCEPT ![r] = after]
                     /\ gen' = [gen EXCEPT ![r] = generateSelf(g)]
                     /\ calls' = [calls EXCEPT ![r] = Append(@,
                          [op |-> "generate", outcome |-> res.outcome,
                           bytes |-> res.bytes, draws |-> draws,
                           randBefore |-> p, randAfter |-> rand'[r]])]
                     /\ status' = [status EXCEPT ![r] =
                          IF res.outcome = "panic" THEN "panicked" ELSE @]
  /\ UNCHANGED <<kind, newArg, onEmptyRange>>

GenerateDummy(r) ==
  /\ CanCall(r)
  /\ rand' = [rand EXCEPT ![r] = dummyRandAfter(rand[r])]
  /\ calls' = [calls EXCEPT ![r] = Append(@,
       [op |-> "generate_dummy", outcome |-> "Ok",
        bytes |-> dummyBytes(gen[r]), draws |-> <<>>,
        randBefore |-> rand[r], randAfter |-> rand'[r]])]
  /\ UNCHANGED <<kind, newArg, gen, stream, onEmptyRange, status>>

Next == \E r \in Runs : Generate(r) \/ GenerateDummy(r)

Spec == Init /\ [][Next]_vars

\* ---- the calls made so far ----
CallSet == UNION {{calls[r][i] : i \in 1..Len(calls[r])} : r \in Runs}

IsGenerate(c) == c.op = "generate"

\* the generate calls that returned Ok(input)
Generated == {c \in CallSet : IsGenerate(c) /\ c.outcome = "Ok"}

Dummies == {c \in CallSet : c.op = "generate_dummy"}

\* the generate calls of run r, in call order
GenCallsOf(r) == SelectSeq(calls[r], IsGenerate)

\* what the randomness source handed back during call c, in draw order
Returned(c) == [j \in 1..Len(c.draws) |-> <<c.draws[j].returned, c.draws[j].result>>]

\* C1: for max_size >= 1, every input RandBytesGenerator::generate returns has a
\* length in [1, max_size] and only bytes in [0, 256).
C1_BytesLengthAndRange ==
  (kind = "RandBytesGenerator" /\ newArg >= 1) =>
    \A c \in Generated :
      /\ Len(c.bytes) >= 1
      /\ Len(c.bytes) <= newArg
      /\ \A b \in Range(c.bytes) : b >= 0 /\ b < 256

C1_Witness ==
  /\ kind = "RandBytesGenerator"
  /\ newArg = 3
  /\ \E c \in Generated : Len(c.bytes) = 2 /\ 255 \in Range(c.bytes)

\* C2 (as stated): for max_size >= 1, every input RandPrintablesGenerator::generate
\* returns has a length in [1, max_size] and only symbols of the alphabet, and
\* the alphabet has exactly 99 characters.
C2_Alphabet99 ==
  (kind = "RandPrintablesGenerator" /\ newArg >= 1) =>
    \A c \in Generated :
      /\ Len(c.bytes) >= 1
      /\ Len(c.bytes) <= newArg
      /\ \A b \in Range(c.bytes) : b \in Range(printables)
      /\ Cardinality(Range(printables)) = 99

\* C2 (amended): the same, the alphabet having exactly 97 characters, all
\* distinct.
C2_Alphabet97 ==
  (kind = "RandPrintablesGenerator" /\ newArg >= 1) =>
    \A c \in Generated :
      /\ Len(c.bytes) >= 1
      /\ Len(c.bytes) <= newArg
      /\ \A b \in Range(c.bytes) : b \in Range(printables)
      /\ Len(printables) = 97
      /\ Cardinality(Range(printables)) = 97

C2_Witness ==
  /\ kind = "RandPrintablesGenerator"
  /\ newArg = 3
  /\ \E c \in Generated : Len(c.bytes) = 2 /\ c.bytes[1] = 48 /\ c.bytes[2] = 126

\* C3: for both generators and every max_size, every generate_dummy call returns
\* exactly min(max_size, 64) zero bytes, whatever calls came before it and
\* whichever of the generators constructed with that max_size made it.
C3_DummyZeroes ==
  /\ \A c \in Dummies :
       /\ c.outcome = "Ok"
       /\ Len(c.bytes) = (IF newArg <= 64 THEN newArg ELSE 64)
       /\ \A i \in 1..Len(c.bytes) : c.bytes[i] = 0
  /\ \A c, d \in Dummies : c.bytes = d.bytes
  /\ (newArg = 5 => \A c \in Dummies : c.bytes = <<0, 0, 0, 0, 0>>)

C3_Witness ==
  /\ newArg = 1000
  /\ Len(calls[1]) = 2 /\ IsGenerate(calls[1][1])
  /\ calls[1][2].op = "generate_dummy" /\ Len(calls[1][2].bytes) = 64
  /\ Len(calls[2]) = 2
  /\ calls[2][1].op = "generate_dummy" /\ calls[2][2].op = "generate_dummy"

\* C4 (as stated): with max_size == 0, generate never draws with a bound of 0
\* and returns an input.
C4_ZeroMaxSizeNormalized ==
  newArg = 0 =>
    \A c \in CallSet :
      IsGenerate(c) =>
        /\ c.outcome = "Ok"
        /\ \A j \in 1..Len(c.draws) : c.draws[j].bound # 0

\* C5: a generate call that returns draws the length first and once, with
\* bound max_size, then one symbol per output position in increasing index
\* order: 1 + length draws, taken one after another from the source, the i-th
\* symbol being the result of the (i+1)-th.
C5_DrawOrder ==
  \A c \in Generated :
    /\ Len(c.draws) = 1 + Len(c.bytes)
    /\ c.draws[1].op = "below" /\ c.draws[1].bound = newArg
    /\ \A j \in 1..Len(c.draws) : c.draws[j].at = c.randBefore + j
    /\ c.randAfter = c.randBefore + Len(c.draws)
    /\ \A i \in 1..Len(c.bytes) :
         /\ c.draws[i + 1].op = (IF kind = "RandBytesGenerator" THEN "below" ELSE "choose")
         /\ c.bytes[i] = c.draws[i + 1].result

C5_Witness ==
  \E c \in Generated :
    /\ Len(c.draws) = 3
    /\ Len(c.bytes) = 2 /\ c.bytes[1] # c.bytes[2]

\* C6: the k-th generate call of one run returns what the k-th generate call
\* of the other run returns, whatever generate_dummy calls lie between them,
\* and two generate calls that were handed the same values by the source
\* return the same input.
C6_Reproducible ==
  /\ \A k \in 1..min(Len(GenCallsOf(1)), Len(GenCallsOf(2))) :
       /\ GenCallsOf(1)[k].outcome = GenCallsOf(2)[k].outcome
       /\ GenCallsOf(1)[k].bytes = GenCallsOf(2)[k].bytes
  /\ \A c, d \in CallSet :
       (IsGenerate(c) /\ IsGenerate(d) /\ Returned(c) = Returned(d)) =>
         (c.outcome = d.outcome /\ c.bytes = d.bytes)

C6_Witness ==
  /\ Len(GenCallsOf(1)) = 2
  /\ Len(calls[2]) = 2 /\ calls[2][1].op = "generate_dummy" /\ IsGenerate(calls[2][2])
  /\ GenCallsOf(1)[1].bytes # GenCallsOf(1)[2].bytes
  /\ GenCallsOf(1)[1].bytes = calls[2][2].bytes

\* C7: max_size stays the value given to new through every call, and
\* generate_dummy makes no draw and leaves the randomness source where it was.
C7_Frame ==
  /\ \A r \in Runs : gen[r].max_size = newArg
  /\ \A c \in Dummies : c.draws = <<>> /\ c.randAfter = c.randBefore

C7_Witness ==
  \E r \in Runs :
    /\ Len(calls[r]) = 2
    /\ IsGenerate(calls[r][1]) /\ calls[r][1].outcome = "Ok"
    /\ calls[r][2].op = "generate_dummy" /\ calls[r][2].randBefore > 0

\* C8: a length draw of 0 gives an output of length 1 and a length draw of
\* k > 0 one of length k; RandBytesGenerator::new(10) on a zero length draw
\* returns the one byte its first below(256) draw gave.
C8_ZeroCoercion ==
  \A c \in Generated :
    /\ c.draws[1].result = 0 => Len(c.bytes) = 1
    /\ c.draws[1].result > 0 => Len(c.bytes) = c.draws[1].result
    /\ (kind = "RandBytesGenerator" /\ newArg = 10 /\ c.draws[1].result = 0) =>
         /\ c.draws[2].op = "below" /\ c.draws[2].bound = 256
         /\ c.bytes = <<c.draws[2].result>>

C8_Witness ==
  /\ kind = "RandBytesGenerator"
  /\ newArg = 10
  /\ \E c \in Generated : c.draws[1].result = 0 /\ c.bytes = <<0>>
  /\ \E c \in Generated : c.draws[1].result = 1 /\ c.bytes = <<255>>

\* C9: with max_size >= 1 every generate call returns Ok, never an error and
\* never a panic, and generate_dummy returns for every max_size.
C9_AlwaysOk ==
  /\ newArg >= 1 =>
       /\ \A r \in Runs : status[r] = "running"
       /\ \A c \in CallSet : c.outcome = "Ok"
  /\ \A c \in Dummies : c.outcome = "Ok"

C9_Witness ==
  /\ newArg >= 1
  /\ \E c \in Generated : c.draws[1].result = 0
  /\ \E c \in Dummies : TRUE

\* C10: for max_size >= 2 the length of a generated input is in
\* 1 .. max_size - 1, never max_size; for max_size = 1 it is 1.
C10_NeverMaxSize ==
  \A c \in Generated :
    /\ newArg >= 2 => (Len(c.bytes) >= 1 /\ Len(c.bytes) <= newArg - 1)
    /\ newArg = 1 => Len(c.bytes) = 1

C10_Witness ==
  /\ newArg = 3
  /\ \E c \in Generated : c.draws[1].result = 2 /\ Len(c.bytes) = newArg - 1

====
